---- MODULE Spec2Model ----
(***************************************************************************)
(* A model of request/request_util.py: the retry decorator, the middleware *)
(* pipeline, the three Downloader variants (requests, httpx, aiohttp) with *)
(* their blocking and suspending operations, and teardown.                  *)
(*                                                                         *)
(* One Downloader is constructed in the initial state.  Calls are made one *)
(* at a time; each call is followed step by step: the body of the          *)
(* operation up to the backend call, the backend's reply (chosen by the    *)
(* environment), the response hooks, and the decision of the retry         *)
(* wrapper.                                                                *)
(***************************************************************************)
EXTENDS Integers, Sequences, FiniteSets, TLC

\* ---------------------------------------------------------------- bounds
MaxRetry == 1
MaxDelay == 1
MaxMiddlewares == 2
MaxCloses == 2
MaxContent == 2
MaxAccesses == 3
MaxTasks == 2

\* ------------------------------------------------------ program constants
DefaultRetryTimes == 3
DefaultRetryDelay == 3
OkLimit == 400

\* ------------------------------------------------------------- vocabulary
None == "None"
Variants == {"requests", "httpx", "aiohttp"}
Ops == {"get", "post", "download", "fetch"}
Modes == {"blocking", "suspending"}
\* The capabilities a middleware class may have; three kinds of class.
MwKinds ==
    { {"process_request", "process_response", "close"},
      {"process_request"},
      {"process_response", "close"} }
\* Status codes a backend reply may carry.
Statuses == {200, 400}
\* What the backend does when called: raise, or answer with a status.
Replies ==
    {[raised |-> FALSE, status |-> s] : s \in Statuses}
        \cup {[raised |-> TRUE, status |-> 0]}
\* The bookkeeping keys of the retry wrapper.
BookKeys == {"retry_times", "retry_delay"}

Range(s) == {s[i] : i \in 1..Len(s)}
MwLists(n) == UNION {[1..k -> MwKinds] : k \in 0..n}
\* Every dict of keyword extras a caller may pass (a function on its keys).
KwargsOver(rts, rds) ==
    UNION { { [k \in S |-> IF k = "retry_times" THEN rt ELSE rd] :
                rt \in rts, rd \in rds } : S \in SUBSET BookKeys }

VARIABLES
    downloader_cls,       \* which backend the Downloader wraps
    ctor_session,         \* the session argument of the constructor
    retry_times,          \* Downloader.retry_times
    retry_delay,          \* Downloader.retry_delay
    middlewares,          \* the middleware classes, in registration order
    request_middleware,   \* deque of request hooks (middleware indices)
    response_middleware,  \* deque of response hooks
    close_method,         \* deque of close hooks
    default_session,      \* Downloader.default_session
    tc,                   \* AiohttpDownloader.tc is set
    pc,                   \* position of the call in flight
    op,                   \* get, post, download or fetch
    mode,                 \* blocking (X) or suspending (async_X)
    wrapped,              \* the call runs under the retry wrapper
    params,               \* the named parameters session and proxies
    kwargs0,              \* the keyword extras as the caller passed them
    kwargs,               \* the wrapper's kwargs dict
    session,              \* the local variable session of the attempt
    thread,               \* the thread the body of the operation runs on
    request,              \* the Request of the attempt (fetch only)
    handed,               \* that Request as it was built, before the hooks
    http_kwargs,          \* bookkeeping keys handed to the backend call
    http_proxies,         \* the proxy parameter handed to the backend call
    result,               \* what the attempt returned or raised
    attempts,             \* times the wrapped function was entered
    req_log,              \* request hooks invoked in this attempt
    resp_log,             \* response hooks invoked in this attempt
    hook_calls,           \* hooks invoked in this call
    hook_raised,          \* some hook raised in this call
    transport_log,        \* the backend calls of this call
    sleep_log,            \* the delays slept in this call
    outcome,              \* what the caller got
    replay,               \* replies the stub transport repeats
    expected,             \* outcome of the blocking call being repeated
    close_log,            \* one record per close() call
    other_at,             \* positions at which another coroutine has run
    resp,                 \* a Response whose accessors are being used
    text_log,             \* what the accesses to its text have returned
    tasks,                \* the suspending calls running concurrently
    running,              \* the task that holds the thread of the loop
    created               \* default sessions get_session has created

downloaderVars ==
    <<downloader_cls, ctor_session, retry_times, retry_delay, middlewares,
      request_middleware, response_middleware, close_method>>
sessionVars == <<default_session, tc>>
callVars ==
    <<pc, op, mode, wrapped, thread, params, kwargs0, kwargs, session,
      request, handed, http_kwargs, http_proxies, result, attempts, req_log, resp_log, hook_calls,
      hook_raised, transport_log, sleep_log, outcome, replay, expected>>
respVars == <<resp, text_log>>
taskVars == <<tasks, running, created>>
vars ==
    <<downloaderVars, sessionVars, callVars, close_log, other_at, respVars,
      taskVars>>

\* ---------------------------------------------------------------- values
NoOutcome == [kind |-> "none", status |-> 0, ok |-> 0]
Raised(exc) == [kind |-> exc, status |-> 0, ok |-> 0]

\* A Response whose ok is still 1 at status 400.
Response_ok_at_limit(status) ==
    [kind |-> "response", status |-> status,
     ok |-> IF status <= OkLimit THEN 1 ELSE 0]
\* Response.__init__: ok is 1 when status < 400, else 0.
Response(status) ==
    [kind |-> "response", status |-> status,
     ok |-> IF status < OkLimit THEN 1 ELSE 0]

NoRequest ==
    [exists |-> FALSE, func |-> None, attrs |-> <<>>, proxies |-> None]

\* Request.__init__: every keyword becomes an attribute.  attrs holds the
\* keyword extras of the call, proxies the value of the proxy parameter.
Request(func, kw, prox) ==
    [exists |-> TRUE, func |-> func, attrs |-> kw, proxies |-> prox]

\* An attempt that goes on with the Request of the attempt before it.
keep_request(prev, func, kw, prox) ==
    IF prev.exists THEN prev ELSE Request(func, kw, prox)
\* The Request of an attempt: fetch constructs one each time it is entered;
\* prev, the Request of the attempt before, is not used.
new_request(prev, func, kw, prox) == Request(func, kw, prox)

\* The proxy parameter among the named parameters handed on by download and
\* fetch: proxies (requests), proxy (aiohttp); httpx pops it.
named_proxies(cls, p) ==
    IF cls = "httpx" THEN None
    ELSE IF p.proxies THEN "caller" ELSE None

\* A hook that assigns the proxy attribute of the Request, as
\* ProxyMiddleware.process_request does.
hook_writes(req, writes) ==
    IF writes THEN [req EXCEPT !.proxies = "hook"] ELSE req

\* Whether some hook of the deque assigns the attribute.
HookWrites(dq) == IF dq = <<>> THEN {FALSE} ELSE BOOLEAN

\* The keyword arguments taken from the Request before the hooks ran.
kwargs_before_hooks(built, after) == built.proxies
\* download_with_middleware: kwargs = request.get_http_kwargs() is taken
\* after process_request returned.
kwargs_after_hooks(built, after) == after.proxies

\* Request.get_http_kwargs: the attributes without the bookkeeping keys.
get_http_kwargs(req) == (DOMAIN req.attrs) \ BookKeys

\* dict.get(key, default)
kwargs_get_default(kw, key, default) == default
kwargs_get(kw, key, default) ==
    IF key \in DOMAIN kw THEN kw[key] ELSE default

\* An assignment that leaves the dict as it was.
kwargs_set_nothing(kw, key, value) == kw
\* kwargs[key] = value
kwargs_set(kw, key, value) ==
    [k \in (DOMAIN kw) \cup {key} |-> IF k = key THEN value ELSE kw[k]]

\* ----------------------------------------------------- middleware loading
EmptyDeques ==
    [request_middleware |-> <<>>, response_middleware |-> <<>>,
     close_method |-> <<>>]

\* The loop body of _load_middleware with append in place of appendleft.
load_one_append(dq, mw, i) ==
    [request_middleware |->
        IF "process_request" \in mw
        THEN Append(dq.request_middleware, i) ELSE dq.request_middleware,
     response_middleware |->
        IF "process_response" \in mw
        THEN Append(dq.response_middleware, i) ELSE dq.response_middleware,
     close_method |->
        IF "close" \in mw
        THEN Append(dq.close_method, i) ELSE dq.close_method]

\* The loop body of _load_middleware for the i-th class: request hooks are
\* appended, response and close hooks are pushed on the left.
load_one(dq, mw, i) ==
    [request_middleware |->
        IF "process_request" \in mw
        THEN Append(dq.request_middleware, i) ELSE dq.request_middleware,
     response_middleware |->
        IF "process_response" \in mw
        THEN <<i>> \o dq.response_middleware ELSE dq.response_middleware,
     close_method |->
        IF "close" \in mw
        THEN <<i>> \o dq.close_method ELSE dq.close_method]

RECURSIVE load_from(_, _, _)
load_from(mws, i, dq) ==
    IF i > Len(mws) THEN dq
    ELSE load_from(mws, i + 1, load_one(dq, mws[i], i))

load_middleware(mws) == load_from(mws, 1, EmptyDeques)

\* ------------------------------------------------------------ hook loops
\* Index of the first hook of dq that raises.
FirstRaiser(dq, raisers) ==
    CHOOSE i \in 1..Len(dq) :
        dq[i] \in raisers /\ \A j \in 1..(i - 1) : dq[j] \notin raisers

\* A hook loop without try/except: it stops at the first hook that raises
\* and the exception leaves the loop.
run_uncaught(dq, raisers) ==
    IF \E i \in 1..Len(dq) : dq[i] \in raisers
    THEN [invoked |-> SubSeq(dq, 1, FirstRaiser(dq, raisers)),
          propagated |-> TRUE]
    ELSE [invoked |-> dq, propagated |-> FALSE]

\* process_request without its try/except.
process_request_uncaught(dq, raisers) == run_uncaught(dq, raisers)

\* process_request: every hook of the deque is called; an exception of a
\* hook is caught and logged.
process_request(dq, raisers) == [invoked |-> dq, propagated |-> FALSE]

\* process_response: the same loop over the response hooks.
process_response(dq, raisers) == [invoked |-> dq, propagated |-> FALSE]

\* DownloaderMiddleware.close: the close hooks are called in deque order,
\* with no try/except.
close_hooks(dq, raisers) == run_uncaught(dq, raisers)

\* ------------------------------------------------------ session selection
Selected(s, ds, t) == [session |-> s, default_session |-> ds, tc |-> t]

\* AiohttpDownloader.get_session: the default session is created on first
\* use, together with its connector.
get_session(ds, t) ==
    IF ds # None THEN Selected(ds, ds, t) ELSE Selected("lazy", "lazy", TRUE)

\* A selection that ignores the session the caller supplied.
select_default_only(cls, p, ds, t) ==
    IF cls = "aiohttp" THEN get_session(ds, t) ELSE Selected(ds, ds, t)

\* The session an attempt of download or fetch performs its backend call on.
select_session(cls, p, ds, t) ==
    IF cls = "requests"
    THEN Selected(IF p.session # None THEN p.session ELSE ds, ds, t)
    ELSE IF cls = "httpx"
    THEN IF p.proxies
         THEN Selected(IF p.session # None THEN "copy" ELSE "proxy_client",
                       ds, t)
         ELSE Selected(IF p.session # None THEN p.session ELSE ds, ds, t)
    ELSE IF p.session # None
         THEN Selected(p.session, ds, t)
         ELSE get_session(ds, t)

\* ----------------------------------------------------------- construction
IdleCall ==
    /\ pc = "idle"
    /\ op = "get"
    /\ mode = "blocking"
    /\ wrapped = TRUE
    /\ params = [session |-> None, proxies |-> FALSE]
    /\ kwargs0 = <<>>
    /\ kwargs = <<>>
    /\ thread = "caller"
    /\ session = None
    /\ request = NoRequest
    /\ handed = NoRequest
    /\ http_kwargs = {}
    /\ http_proxies = None
    /\ result = NoOutcome
    /\ attempts = 0
    /\ req_log = <<>>
    /\ resp_log = <<>>
    /\ hook_calls = 0
    /\ hook_raised = FALSE
    /\ transport_log = <<>>
    /\ sleep_log = <<>>
    /\ outcome = NoOutcome
    /\ replay = <<>>
    /\ expected = NoOutcome

\* __init__ of RequestDownloader, HttpxDownloader and AiohttpDownloader.
Construct(cls, sess, mws, rt, rd) ==
    /\ downloader_cls = cls
    /\ ctor_session = sess
    /\ retry_times = rt
    /\ retry_delay = rd
    /\ middlewares = mws
    /\ request_middleware = load_middleware(mws).request_middleware
    /\ response_middleware = load_middleware(mws).response_middleware
    /\ close_method = load_middleware(mws).close_method
    /\ default_session =
        IF sess # None THEN sess
        ELSE IF cls = "aiohttp" THEN None ELSE "default"
    /\ tc = FALSE
    /\ close_log = <<>>
    /\ other_at = {}
    /\ IdleCall

\* -------------------------------------------------------------- threads
\* run_in_threadpool: the function runs on a worker thread of the loop's
\* default executor and the calling coroutine awaits it.
run_in_threadpool == "worker"

\* A function called in place runs on the thread of the event loop.
run_in_place == "loop"

\* run_function: a coroutine function is awaited in place, any other
\* function goes to the thread pool.
run_function_in_place(is_coroutine) == run_in_place
run_function(is_coroutine) ==
    IF is_coroutine THEN run_in_place ELSE run_in_threadpool

\* The thread on which the body of an operation, the retry wrapper and its
\* time.sleep included, runs.  Blocking mode: the calling thread.  The
\* suspending operations of RequestDownloader and HttpxDownloader pass the
\* blocking operation, a plain function, to run_function; those of
\* AiohttpDownloader are coroutines the caller awaits on the loop.
body_thread(cls, m) ==
    IF m = "blocking" THEN "caller"
    ELSE IF cls = "aiohttp" THEN run_in_place
    ELSE run_function(FALSE)

\* --------------------------------------------------------------- a call
\* The caller invokes op (blocking) or async_op (suspending).  The
\* suspending operations of RequestDownloader and HttpxDownloader run the
\* wrapped blocking operation on a worker thread; those of
\* AiohttpDownloader are the undecorated coroutines.
StartCall(o, m, kw, sess, prox, rep, exp) ==
    /\ close_log = <<>>
    /\ pc' = "func"
    /\ op' = o
    /\ mode' = m
    /\ wrapped' = ~(downloader_cls = "aiohttp" /\ m = "suspending")
    /\ thread' = body_thread(downloader_cls, m)
    /\ params' = [session |-> sess, proxies |-> prox]
    /\ kwargs0' = kw
    /\ kwargs' = kw
    /\ session' = None
    /\ request' = NoRequest
    /\ handed' = NoRequest
    /\ http_kwargs' = {}
    /\ http_proxies' = None
    /\ result' = NoOutcome
    /\ attempts' = 0
    /\ req_log' = <<>>
    /\ resp_log' = <<>>
    /\ hook_calls' = 0
    /\ hook_raised' = FALSE
    /\ transport_log' = <<>>
    /\ sleep_log' = <<>>
    /\ outcome' = NoOutcome
    /\ replay' = rep
    /\ expected' = exp
    /\ other_at' = {}
    /\ UNCHANGED <<taskVars, respVars, downloaderVars, sessionVars,
                   close_log>>

Call(o, m, kw, sess, prox) ==
    /\ pc = "idle"
    /\ o \in {"get", "post"} => (sess = None /\ prox = FALSE)
    /\ StartCall(o, m, kw, sess, prox, <<>>, NoOutcome)

\* The suspending variant of the blocking call that has just ended, with
\* the same arguments, against a stub transport that repeats its replies.
CallTwin ==
    /\ pc = "done"
    /\ mode = "blocking"
    /\ StartCall(op, "suspending", kwargs0, params.session, params.proxies,
                 [i \in 1..Len(transport_log) |-> transport_log[i].reply],
                 outcome)

\* The body of an operation that goes straight to the backend call.
Direct(o, sel) ==
    /\ pc = "func"
    /\ op = o
    /\ pc' = "transport"
    /\ attempts' = attempts + 1
    /\ session' = sel.session
    /\ default_session' = sel.default_session
    /\ tc' = sel.tc
    /\ request' = NoRequest
    /\ handed' = NoRequest
    /\ http_kwargs' = DOMAIN kwargs
    /\ http_proxies' = named_proxies(downloader_cls, params)
    /\ result' = NoOutcome
    /\ req_log' = <<>>
    /\ resp_log' = <<>>
    /\ UNCHANGED <<taskVars, respVars, other_at, downloaderVars, close_log,
                   op, mode, wrapped, thread, params, kwargs0, kwargs,
                   hook_calls, hook_raised, transport_log, sleep_log, outcome,
                   replay, expected>>

\* The body of an operation that goes through the middleware pipeline: the
\* Request is built and download_with_middleware runs the request hooks.
ThroughMiddleware(o, sel) ==
    /\ pc = "func"
    /\ op = o
    /\ \E raisers \in SUBSET Range(request_middleware),
          writes \in HookWrites(request_middleware) :
        LET built == new_request(request, sel.session, kwargs,
                                 named_proxies(downloader_cls, params))
            req == hook_writes(built, writes)
            run == process_request(request_middleware, raisers)
        IN  /\ attempts' = attempts + 1
            /\ handed' = built
            /\ session' = sel.session
            /\ default_session' = sel.default_session
            /\ tc' = sel.tc
            /\ request' = req
            /\ req_log' = run.invoked
            /\ resp_log' = <<>>
            /\ hook_calls' = hook_calls + Len(run.invoked)
            /\ hook_raised' = (hook_raised \/ raisers # {})
            /\ IF run.propagated
               THEN /\ pc' = "returned"
                    /\ result' = Raised("MiddlewareError")
                    /\ http_kwargs' = {}
                    /\ http_proxies' = None
               ELSE /\ pc' = "transport"
                    /\ result' = NoOutcome
                    /\ http_kwargs' = get_http_kwargs(req)
                    /\ http_proxies' = kwargs_after_hooks(built, req)
    /\ UNCHANGED <<taskVars, respVars, other_at, downloaderVars, close_log,
                   op, mode, wrapped, thread, params, kwargs0, kwargs,
                   transport_log, sleep_log, outcome, replay, expected>>

\* get and post call the module-level function of the backend (aiohttp: a
\* ClientSession of their own); no session of the Downloader is involved.
get == Direct("get", Selected("module", default_session, tc))

post == Direct("post", Selected("module", default_session, tc))

\* download with the middleware pipeline around it.
download_through_middleware ==
    ThroughMiddleware("download",
        select_session(downloader_cls, params, default_session, tc))

\* download / async_download: session selection, then the backend call.
download ==
    Direct("download",
        select_session(downloader_cls, params, default_session, tc))

\* fetch / async_fetch: session selection, then the pipeline.
fetch ==
    ThroughMiddleware("fetch",
        select_session(downloader_cls, params, default_session, tc))

\* _request: the backend call returns a reply or raises; a reply becomes a
\* Response.
Transport ==
    /\ pc = "transport"
    /\ \E r \in Replies :
        /\ Len(transport_log) < Len(replay)
              => r = replay[Len(transport_log) + 1]
        /\ transport_log' =
              Append(transport_log,
                     [session |-> IF request.exists THEN request.func
                                  ELSE session,
                      kwargs |-> http_kwargs,
                      proxies |-> http_proxies,
                      reply |-> r])
        /\ IF r.raised
           THEN /\ result' = Raised("TransportError")
                /\ pc' = "returned"
           ELSE /\ result' = Response(r.status)
                /\ pc' = IF request.exists THEN "process_response"
                         ELSE "returned"
    /\ UNCHANGED <<taskVars, respVars, other_at, downloaderVars, sessionVars,
                   close_log, op, mode, wrapped, thread, params, kwargs0,
                   kwargs, session, request, handed, http_kwargs,
                   http_proxies, attempts, req_log, resp_log, hook_calls,
                   hook_raised, sleep_log, outcome, replay, expected>>

\* download_with_middleware after the backend call returned: the response
\* hooks run and the response is returned.
download_with_middleware ==
    /\ pc = "process_response"
    /\ \E raisers \in SUBSET Range(response_middleware),
          writes \in HookWrites(response_middleware) :
        LET run == process_response(response_middleware, raisers)
        IN  /\ resp_log' = run.invoked
            /\ request' = hook_writes(request, writes)
            /\ hook_calls' = hook_calls + Len(run.invoked)
            /\ hook_raised' = (hook_raised \/ raisers # {})
            /\ result' = IF run.propagated THEN Raised("MiddlewareError")
                         ELSE result
    /\ pc' = "returned"
    /\ UNCHANGED <<taskVars, respVars, other_at, downloaderVars, sessionVars,
                   close_log, op, mode, wrapped, thread, params, kwargs0,
                   kwargs, session, handed, http_kwargs, http_proxies,
                   attempts, req_log, transport_log, sleep_log, outcome,
                   replay, expected>>

\* retry.wrapper returns the response of the attempt to the caller.
returns_any_response(res) == res.kind = "response"
returns(res) == res.kind = "response" /\ res.ok = 1

\* retry.wrapper gives up.
exhausted_at_one(rt) == rt <= 1
exhausted(rt) == rt <= 0

\* time.sleep(retry_delay)
no_sleep(log, delay) == log
time_sleep(log, delay) == Append(log, delay)

\* A wrapper that keeps the remaining budget in the Downloader.
wrapper_writes_config ==
    /\ pc = "returned"
    /\ wrapped
    /\ IF returns(result)
       THEN /\ outcome' = result
            /\ pc' = "done"
            /\ UNCHANGED <<kwargs, sleep_log, retry_times>>
       ELSE LET rt == kwargs_get(kwargs, "retry_times", retry_times)
                rd == kwargs_get(kwargs, "retry_delay", retry_delay)
            IN  IF exhausted(rt)
                THEN /\ outcome' = Raised("RetryExhausted")
                     /\ pc' = "done"
                     /\ UNCHANGED <<kwargs, sleep_log, retry_times>>
                ELSE /\ retry_times' = rt - 1
                     /\ UNCHANGED kwargs
                     /\ sleep_log' = time_sleep(sleep_log, rd)
                     /\ pc' = "sleeping"
                     /\ UNCHANGED outcome
    /\ UNCHANGED <<taskVars, respVars, other_at, downloader_cls, ctor_session,
                   retry_delay, middlewares, request_middleware,
                   response_middleware, close_method, sessionVars, close_log,
                   op, mode, wrapped, thread, params, kwargs0, session,
                   request, handed, http_kwargs, http_proxies, result,
                   attempts, req_log, resp_log, hook_calls, hook_raised,
                   transport_log, replay, expected>>
\* retry.wrapper after the wrapped function returned or raised.
wrapper ==
    /\ pc = "returned"
    /\ wrapped
    /\ IF returns(result)
       THEN /\ outcome' = result
            /\ pc' = "done"
            /\ UNCHANGED <<kwargs, sleep_log>>
       ELSE LET rt == kwargs_get(kwargs, "retry_times", retry_times)
                rd == kwargs_get(kwargs, "retry_delay", retry_delay)
            IN  IF exhausted(rt)
                THEN /\ outcome' = Raised("RetryExhausted")
                     /\ pc' = "done"
                     /\ UNCHANGED <<kwargs, sleep_log>>
                ELSE /\ kwargs' = kwargs_set(kwargs, "retry_times", rt - 1)
                     /\ sleep_log' = time_sleep(sleep_log, rd)
                     /\ pc' = "sleeping"
                     /\ UNCHANGED outcome
    /\ UNCHANGED <<taskVars, respVars, other_at, downloaderVars, sessionVars,
                   close_log, op, mode, wrapped, thread, params, kwargs0,
                   session, request, handed, http_kwargs, http_proxies,
                   result, attempts, req_log, resp_log, hook_calls,
                   hook_raised, transport_log, replay, expected>>

\* time.sleep returns and the wrapper's loop enters the function again.
Wake ==
    /\ pc = "sleeping"
    /\ pc' = "func"
    /\ UNCHANGED <<taskVars, respVars, other_at, downloaderVars, sessionVars,
                   close_log, op, mode, wrapped, thread, params, kwargs0,
                   kwargs, session, request, handed, http_kwargs,
                   http_proxies, result, attempts, req_log, resp_log,
                   hook_calls, hook_raised, transport_log, sleep_log, outcome,
                   replay, expected>>

\* The thread of the event loop is free for other coroutines: the call in
\* flight runs on another thread, or its coroutine is suspended in an await.
LoopFree ==
    \/ thread # run_in_place
    \/ pc \in {"transport", "process_response"}

\* Another coroutine of the same loop takes a step while a suspending call
\* is in flight.
OtherCoroutine ==
    /\ mode = "suspending"
    /\ pc \notin {"idle", "done"}
    /\ LoopFree
    /\ pc \notin other_at
    /\ other_at' = other_at \cup {pc}
    /\ UNCHANGED <<taskVars, respVars, downloaderVars, sessionVars, callVars,
                   close_log>>

\* An undecorated coroutine of AiohttpDownloader hands its result, or its
\* exception, to the awaiting caller.
Await ==
    /\ pc = "returned"
    /\ ~wrapped
    /\ outcome' = result
    /\ pc' = "done"
    /\ UNCHANGED <<taskVars, respVars, other_at, downloaderVars, sessionVars,
                   close_log, op, mode, wrapped, thread, params, kwargs0,
                   kwargs, session, request, handed, http_kwargs,
                   http_proxies, result, attempts, req_log, resp_log,
                   hook_calls, hook_raised, transport_log, sleep_log, replay,
                   expected>>

\* The caller has its result; the frame of the call is gone.
Finish ==
    /\ pc = "done"
    /\ pc' = "idle"
    /\ op' = "get"
    /\ mode' = "blocking"
    /\ wrapped' = TRUE
    /\ thread' = "caller"
    /\ params' = [session |-> None, proxies |-> FALSE]
    /\ kwargs0' = <<>>
    /\ kwargs' = <<>>
    /\ session' = None
    /\ request' = NoRequest
    /\ handed' = NoRequest
    /\ http_kwargs' = {}
    /\ http_proxies' = None
    /\ result' = NoOutcome
    /\ attempts' = 0
    /\ req_log' = <<>>
    /\ resp_log' = <<>>
    /\ hook_calls' = 0
    /\ hook_raised' = FALSE
    /\ transport_log' = <<>>
    /\ sleep_log' = <<>>
    /\ outcome' = NoOutcome
    /\ replay' = <<>>
    /\ expected' = NoOutcome
    /\ other_at' = {}
    /\ UNCHANGED <<taskVars, respVars, downloaderVars, sessionVars,
                   close_log>>

\* ---------------------------------------------------------------- close
HookEvent(i) == [kind |-> "hook", mw |-> i]
ReleaseEvent == [kind |-> "release", mw |-> 0]

\* close(), called by the owner or by __del__.  Requests and httpx: the
\* close hooks only.  Aiohttp: the close hooks, then the default session is
\* closed when there is one, then the connector.  The record of a close()
\* keeps what was invoked, which of the invoked hooks raised, and whether
\* close() itself raised.
Close ==
    /\ pc = "idle"
    /\ Len(close_log) < MaxCloses
    /\ \E raisers \in SUBSET Range(close_method) :
        LET run == close_hooks(close_method, raisers)
            release ==
                /\ downloader_cls = "aiohttp"
                /\ ~run.propagated
                /\ default_session # None
            events ==
                [i \in 1..Len(run.invoked) |-> HookEvent(run.invoked[i])]
                    \o (IF release THEN <<ReleaseEvent>> ELSE <<>>)
        IN  close_log' =
                Append(close_log,
                       [events |-> events,
                        failed |-> Range(run.invoked) \cap raisers,
                        raised |-> run.propagated \/ (release /\ ~tc)])
    /\ UNCHANGED <<taskVars, respVars, other_at, downloaderVars, sessionVars,
                   callVars>>

\* ------------------------------------------------- the body of a Response
\* Bytes a body is made of: "A", and the two bytes of an e-acute in UTF-8.
Bytes == {65, 195, 169}
\* A value an accessor may see or return: None, bytes, a str (its code
\* points), or an exception.
Value(kind, data) == [kind |-> kind, data |-> data]
Contents ==
    {Value(None, <<>>)}
        \cup {Value("bytes", b) :
                 b \in UNION {[1..n -> Bytes] : n \in 0..MaxContent}}
\* The codecs codecs.lookup knows of.
Codecs == {"utf-8", "latin-1"}
\* Values of the charset parameter of Content-Type; "" when it is absent.
Charsets == {"", "utf-8", "latin-1", "x-unknown"}
\* Type and subtype of Content-Type, as parse_mimetype splits them.
Mimetypes ==
    { [type |-> "text", subtype |-> "html"],
      [type |-> "application", subtype |-> "json"],
      [type |-> "application", subtype |-> "rdap"],
      [type |-> "text", subtype |-> "json"] }
\* What cchardet.detect may report for a body.
Detections == {None, "utf-8", "latin-1"}
\* U+FFFD, which decoding with errors='replace' puts for a malformed byte.
Replacement == 65533

\* Response.__init__, for the attributes the accessors read.  detected is
\* what cchardet.detect reports for the content; get_encoding_calls counts
\* the calls of get_encoding.
ResponseObject(status, encoding, content, charset, mimetype, detected) ==
    [status |-> status, ok |-> Response(status).ok, encoding |-> encoding,
     content |-> content, charset |-> charset, mimetype |-> mimetype,
     detected |-> detected, get_encoding_calls |-> 0]

\* codecs.lookup(encoding) succeeds.
codecs_lookup(encoding) == encoding \in Codecs

\* get_encoding that takes the charset parameter without looking it up.
get_encoding_unchecked(r) ==
    IF r.charset # "" THEN r.charset
    ELSE IF r.mimetype.type = "application"
            /\ r.mimetype.subtype \in {"json", "rdap"}
    THEN "utf-8"
    ELSE IF r.content.kind = None THEN "RuntimeError"
    ELSE IF r.detected # None THEN r.detected
    ELSE "utf-8"
\* Response.get_encoding.
get_encoding(r) ==
    LET encoding ==
            IF r.charset # "" /\ codecs_lookup(r.charset) THEN r.charset
            ELSE None
    IN  IF encoding # None THEN encoding
        ELSE IF r.mimetype.type = "application"
                /\ r.mimetype.subtype \in {"json", "rdap"}
        THEN "utf-8"
        ELSE IF r.content.kind = None THEN "RuntimeError"
        ELSE IF r.detected # None THEN r.detected
        ELSE "utf-8"

\* bytes.decode(encoding, errors='replace'): the code points of the text.
RECURSIVE decode_utf8(_)
decode_utf8(b) ==
    IF b = <<>> THEN <<>>
    ELSE IF b[1] < 128 THEN <<b[1]>> \o decode_utf8(Tail(b))
    ELSE IF b[1] \in 194..223 /\ Len(b) > 1 /\ b[2] \in 128..191
    THEN <<(b[1] - 192) * 64 + (b[2] - 128)>> \o decode_utf8(Tail(Tail(b)))
    ELSE <<Replacement>> \o decode_utf8(Tail(b))

decode(b, encoding) ==
    IF encoding = "utf-8" THEN Value("str", decode_utf8(b))
    ELSE IF encoding = "latin-1" THEN Value("str", b)
    ELSE Value("LookupError", <<>>)

\* The encoding attribute after an access that found it empty, when the
\* result of get_encoding is not stored.
store_nothing(r, encoding) == r.encoding
\* self.encoding = self.get_encoding()
store_encoding(r, encoding) == encoding

\* The property text: the Response after the access, and what it returned.
text_of(r) ==
    IF r.content.data = <<>>
    THEN [resp |-> r, value |-> r.content]
    ELSE IF r.encoding = ""
    THEN LET encoding == get_encoding(r)
         IN  [resp |-> [r EXCEPT !.encoding = store_encoding(r, encoding),
                                 !.get_encoding_calls = @ + 1],
              value |-> decode(r.content.data,
                               store_encoding(r, encoding))]
    ELSE [resp |-> r, value |-> decode(r.content.data, r.encoding)]

\* An accessor reads self.text; the log keeps which accessor it was and
\* the text it got.
Access(by) ==
    /\ Len(text_log) < MaxAccesses
    /\ resp' = text_of(resp).resp
    /\ text_log' = Append(text_log, [by |-> by, text |-> text_of(resp).value])
    /\ UNCHANGED <<taskVars, downloaderVars, sessionVars, callVars, close_log,
                   other_at>>

\* The property text.
text == Access("text")

\* json(): ujson.loads(self.text).
json == Access("json")

\* xpath(), re() and css(): each goes through selector, Selector(self.text).
selector == Access("selector")

\* No Response is being read.
NoResponse ==
    /\ resp = ResponseObject(-1, "", Value(None, <<>>), "",
                             [type |-> "", subtype |-> ""], None)
    /\ text_log = <<>>

\* ------------------------------------------- concurrent suspending calls
\* Several suspending calls, async_download or async_fetch, are in flight
\* on one Downloader and one event loop.  Each is followed statement by
\* statement.  A coroutine of AiohttpDownloader runs on the thread of the
\* loop and keeps it until it awaits something that suspends it; the
\* suspending operations of the other two variants run the blocking
\* operation on a worker thread each.
TaskIds == 1..MaxTasks

\* The calls a task may be: the operation and its session argument.
CallKinds ==
    << [op |-> "download", own |-> None], [op |-> "download", own |-> "call"],
       [op |-> "fetch", own |-> None], [op |-> "fetch", own |-> "call"] >>

\* A call that has been scheduled and has not run yet.  own is the session
\* argument of the call, budget the retry budget of its wrapper.
NewTask(o, own, budget) ==
    [op |-> o, own |-> own, pc |-> "start", session |-> None,
     budget |-> budget, ok |-> FALSE]

\* Awaits that suspend, were get_session to await between its test and the
\* creation of the session.
SuspendedAt_get_session ==
    {"request_hooks", "transport", "response_hooks", "create"}
\* The awaits of a coroutine of AiohttpDownloader that suspend it:
\* run_function with the request hooks, the backend call, run_function with
\* the response hooks.  Awaiting get_session does not: it has no await.
SuspendedAt == {"request_hooks", "transport", "response_hooks"}

\* The calls run as coroutines on the thread of the loop.
OnLoop == body_thread(downloader_cls, "suspending") = run_in_place

\* Task t can take a step: its worker thread is always free to; a coroutine
\* needs the thread of the loop, which it holds or which is idle.
CanRun(t) == OnLoop => running \in {0, t}

\* Task t goes to position p with the changes ch of its record; it gives up
\* the thread of the loop when p is an await that suspends, or the end.
Goto(t, p, ch) ==
    /\ tasks' = [tasks EXCEPT ![t] = [ch EXCEPT !.pc = p]]
    /\ running' = IF OnLoop /\ p \notin SuspendedAt \cup {"done"}
                  THEN t ELSE 0
    /\ UNCHANGED <<respVars, downloaderVars, callVars, close_log, other_at>>

\* The position after the session is chosen.
AfterSelect(o) == IF o = "fetch" THEN "build" ELSE "call"

\* The operation is entered and copies its arguments.
Enter(t) ==
    /\ tasks[t].pc = "start"
    /\ CanRun(t)
    /\ Goto(t, "select", tasks[t])
    /\ UNCHANGED <<sessionVars, created>>

\* if not session: the default session (requests, httpx) or the call of
\* get_session (aiohttp).
Select(t) ==
    /\ tasks[t].pc = "select"
    /\ CanRun(t)
    /\ IF tasks[t].own # None
       THEN Goto(t, AfterSelect(tasks[t].op),
                 [tasks[t] EXCEPT !.session = tasks[t].own])
       ELSE IF downloader_cls = "aiohttp"
       THEN Goto(t, "get_session", tasks[t])
       ELSE Goto(t, AfterSelect(tasks[t].op),
                 [tasks[t] EXCEPT !.session = default_session])
    /\ UNCHANGED <<sessionVars, created>>

\* get_session: if self.default_session: return self.default_session
GetSession(t) ==
    /\ tasks[t].pc = "get_session"
    /\ CanRun(t)
    /\ IF default_session # None
       THEN Goto(t, AfterSelect(tasks[t].op),
                 [tasks[t] EXCEPT
                    !.session = get_session(default_session, tc).session])
       ELSE Goto(t, "create", tasks[t])
    /\ UNCHANGED <<sessionVars, created>>

\* get_session, the else branch: the connector and the session are created
\* and stored, whatever default_session has become since the test.
CreateSession(t) ==
    /\ tasks[t].pc = "create"
    /\ CanRun(t)
    /\ default_session' = get_session(None, tc).default_session
    /\ tc' = get_session(None, tc).tc
    /\ created' = created + 1
    /\ Goto(t, AfterSelect(tasks[t].op),
            [tasks[t] EXCEPT !.session = get_session(None, tc).session])

\* fetch builds the Request and hands it to the pipeline, which starts the
\* request hooks: in place on a worker thread, through run_function from a
\* coroutine.
Build(t) ==
    /\ tasks[t].pc = "build"
    /\ CanRun(t)
    /\ Goto(t, "request_hooks", tasks[t])
    /\ UNCHANGED <<sessionVars, created>>

\* The request hooks have run; kwargs = request.get_http_kwargs().
RequestHooks(t) ==
    /\ tasks[t].pc = "request_hooks"
    /\ CanRun(t)
    /\ Goto(t, "call", tasks[t])
    /\ UNCHANGED <<sessionVars, created>>

\* The backend call is made and its reply awaited.
Send(t) ==
    /\ tasks[t].pc = "call"
    /\ CanRun(t)
    /\ Goto(t, "transport", tasks[t])
    /\ UNCHANGED <<sessionVars, created>>

\* The reply has come: _request builds the Response, or the call raised.
\* fetch goes on with the response hooks.
Reply(t) ==
    /\ tasks[t].pc = "transport"
    /\ CanRun(t)
    /\ \E r \in Replies :
        IF r.raised
        THEN Goto(t, "returned", [tasks[t] EXCEPT !.ok = FALSE])
        ELSE Goto(t, IF tasks[t].op = "fetch" THEN "response_hooks"
                     ELSE "returned",
                  [tasks[t] EXCEPT !.ok = (Response(r.status).ok = 1)])
    /\ UNCHANGED <<sessionVars, created>>

\* The response hooks have run and the operation returns the Response.
ResponseHooks(t) ==
    /\ tasks[t].pc = "response_hooks"
    /\ CanRun(t)
    /\ Goto(t, "returned", tasks[t])
    /\ UNCHANGED <<sessionVars, created>>

\* The operation has returned or raised.  A coroutine of AiohttpDownloader
\* hands that to its caller; under retry.wrapper the call ends when the
\* Response is ok or the budget is used up, else the wrapper sleeps.
Return(t) ==
    /\ tasks[t].pc = "returned"
    /\ CanRun(t)
    /\ IF OnLoop \/ tasks[t].ok \/ exhausted(tasks[t].budget)
       THEN Goto(t, "done", tasks[t])
       ELSE Goto(t, "sleeping",
                 [tasks[t] EXCEPT !.budget = @ - 1, !.ok = FALSE])
    /\ UNCHANGED <<sessionVars, created>>

\* time.sleep returns on the worker thread and the operation is entered
\* again.
Resume(t) ==
    /\ tasks[t].pc = "sleeping"
    /\ CanRun(t)
    /\ Goto(t, "select", tasks[t])
    /\ UNCHANGED <<sessionVars, created>>

\* One statement of one task.
TaskStep(t) ==
    \/ Enter(t)
    \/ Select(t)
    \/ GetSession(t)
    \/ CreateSession(t)
    \/ Build(t)
    \/ RequestHooks(t)
    \/ Send(t)
    \/ Reply(t)
    \/ ResponseHooks(t)
    \/ Return(t)
    \/ Resume(t)

\* No concurrent calls are in flight.
NoTasks ==
    /\ tasks = <<>>
    /\ running = 0
    /\ created = 0

\* ------------------------------------------------------- specifications
\* A Downloader is constructed and no Response is being read.
Constructed(cls, sess, mws, rt, rd) ==
    /\ Construct(cls, sess, mws, rt, rd)
    /\ NoResponse
    /\ NoTasks

Steps ==
    \/ get
    \/ post
    \/ download
    \/ fetch
    \/ Transport
    \/ download_with_middleware
    \/ wrapper
    \/ Wake
    \/ Await
    \/ Finish

\* Retry and bridging: the retry arguments vary, one middleware at most.
Init ==
    \E cls \in Variants,
       rt \in (0..MaxRetry) \cup {DefaultRetryTimes},
       rd \in (1..MaxDelay) \cup {DefaultRetryDelay},
       mws \in MwLists(1) :
        Constructed(cls, None, mws, rt, rd)

Next ==
    \/ \E o \in Ops, m \in Modes,
          kw \in KwargsOver(0..MaxRetry, 1..MaxDelay) :
            Call(o, m, kw, None, FALSE)
    \/ CallTwin
    \/ Steps

Spec == Init /\ [][Next]_vars

\* Middleware and teardown: the middleware list varies, the retry arguments
\* are those of the constructor.
InitMiddleware ==
    \E cls \in Variants, sess \in {None, "ctor"}, rt \in 0..MaxRetry,
       mws \in MwLists(MaxMiddlewares) :
        Constructed(cls, sess, mws, rt, DefaultRetryDelay)

NextMiddleware ==
    \/ \E o \in Ops, m \in Modes : Call(o, m, <<>>, None, FALSE)
    \/ Close
    \/ Steps

SpecMiddleware == InitMiddleware /\ [][NextMiddleware]_vars

\* Sessions: the session and proxies arguments vary.
InitSession ==
    \E cls \in Variants, sess \in {None, "ctor"}, rt \in 0..MaxRetry,
       mws \in MwLists(1) :
        Constructed(cls, sess, mws, rt, DefaultRetryDelay)

NextSession ==
    \/ \E o \in Ops, m \in Modes, sess \in {None, "call"},
          prox \in BOOLEAN :
            Call(o, m, <<>>, sess, prox)
    \/ Steps

SpecSession == InitSession /\ [][NextSession]_vars

\* The event loop: calls in both modes, and another coroutine of the loop
\* that runs whenever the loop's thread is free.
InitLoop ==
    \E cls \in Variants, rt \in 0..MaxRetry, mws \in MwLists(1) :
        Constructed(cls, None, mws, rt, DefaultRetryDelay)

NextLoop ==
    \/ \E o \in Ops, m \in Modes : Call(o, m, <<>>, None, FALSE)
    \/ OtherCoroutine
    \/ Steps

SpecLoop == InitLoop /\ [][NextLoop]_vars

\* Reading a Response: every combination of explicit encoding, Content-Type
\* and body, then a sequence of accesses.
InitResponse ==
    /\ Construct("requests", None, <<>>, DefaultRetryTimes, DefaultRetryDelay)
    /\ \E status \in Statuses, encoding \in {""} \cup Codecs,
          content \in Contents, charset \in Charsets,
          mimetype \in Mimetypes, detected \in Detections :
            resp = ResponseObject(status, encoding, content, charset,
                                  mimetype, detected)
    /\ text_log = <<>>
    /\ NoTasks

NextResponse ==
    \/ text
    \/ json
    \/ selector

SpecResponse == InitResponse /\ [][NextResponse]_vars

\* Concurrent suspending calls: MaxTasks calls of async_download and
\* async_fetch, with or without a session of their own, on a Downloader
\* with one middleware that has every hook and a retry budget of MaxRetry.
\* The calls are interchangeable, so they are listed in one order only.
InitConcurrent ==
    /\ \E cls \in Variants, sess \in {None, "ctor"},
          kinds \in [TaskIds -> 1..Len(CallKinds)] :
          /\ \A t, u \in TaskIds : t < u => kinds[t] <= kinds[u]
          /\ Construct(cls, sess,
                       <<{"process_request", "process_response", "close"}>>,
                       MaxRetry, DefaultRetryDelay)
          /\ tasks = [t \in TaskIds |->
                        NewTask(CallKinds[kinds[t]].op,
                                CallKinds[kinds[t]].own, MaxRetry)]
    /\ NoResponse
    /\ running = 0
    /\ created = 0

NextConcurrent == \E t \in TaskIds : TaskStep(t)

SpecConcurrent == InitConcurrent /\ [][NextConcurrent]_vars

\* ------------------------------------------------------------ properties
\* The retry budget and delay of the call in flight, as the caller gave
\* them: the argument of the call when present, else the configuration.
Budget ==
    IF "retry_times" \in DOMAIN kwargs0 THEN kwargs0["retry_times"]
    ELSE retry_times
Delay ==
    IF "retry_delay" \in DOMAIN kwargs0 THEN kwargs0["retry_delay"]
    ELSE retry_delay

\* A backend call that failed: it raised, or answered with a non-ok status.
Failed(r) == r.raised \/ r.status >= 400
AllFail == \A i \in 1..Len(transport_log) : Failed(transport_log[i].reply)
LastReply == transport_log[Len(transport_log)].reply

\* The middlewares that have a given hook, in registration order.
HooksOf(cap) ==
    SelectSeq([i \in 1..Len(middlewares) |-> i],
              LAMBDA i : cap \in middlewares[i])
Reverse(s) == [i \in 1..Len(s) |-> s[Len(s) + 1 - i]]

\* C1 (as stated): with a budget of K and a transport that fails on every
\* attempt, a blocking fetch raises RetryExhausted after exactly K backend
\* calls.
C1_ExhaustedAfterK ==
    (pc = "done" /\ op = "fetch" /\ mode = "blocking" /\ AllFail)
        => /\ outcome.kind = "RetryExhausted"
           /\ Len(transport_log) = Budget

\* C1 (amended): with a budget of K and a transport that fails on every
\* attempt, a blocking fetch raises RetryExhausted after exactly K + 1
\* backend calls: the first attempt and K retries.
C1_ExhaustedAfterKPlusOne ==
    (pc = "done" /\ op = "fetch" /\ mode = "blocking" /\ AllFail)
        => /\ outcome.kind = "RetryExhausted"
           /\ Len(transport_log) = Budget + 1
           /\ attempts = Budget + 1

C1_Witness ==
    /\ pc = "done" /\ op = "fetch" /\ mode = "blocking"
    /\ outcome.kind = "RetryExhausted"
    /\ Budget >= 1
    /\ AllFail
    /\ Len(transport_log) = Budget + 1

\* C2: with a budget of K >= 1 and a transport that fails K - 1 times and
\* then succeeds, a blocking fetch makes the K-th attempt, returns its
\* Response, and has slept exactly K - 1 times.
C2_SuccessOnKth ==
    (op = "fetch" /\ mode = "blocking" /\ Budget >= 1 /\ pc = "done")
        => /\ AllFail => Len(transport_log) >= Budget
           /\ ( /\ Len(transport_log) = Budget
                /\ \A i \in 1..(Budget - 1) : Failed(transport_log[i].reply)
                /\ ~Failed(LastReply) )
              => /\ outcome.kind = "response"
                 /\ outcome.status = LastReply.status
                 /\ outcome.ok = 1
                 /\ attempts = Budget
                 /\ Len(sleep_log) = Budget - 1

C2_Witness ==
    /\ pc = "done" /\ op = "fetch" /\ mode = "blocking"
    /\ Budget >= 2
    /\ Len(transport_log) = Budget
    /\ outcome.kind = "response"
    /\ Len(sleep_log) = Budget - 1

\* C3: a blocking get, post, download or fetch ends in one of two ways: it
\* returns a Response whose ok is true, or it raises RetryExhausted when the
\* budget is used up; no non-ok Response and no exception of the transport
\* reaches the caller.
C3_TwoOutcomes ==
    (pc = "done" /\ mode = "blocking")
        => \/ /\ outcome.kind = "response"
              /\ outcome.ok = 1
              /\ outcome.status < 400
           \/ /\ outcome.kind = "RetryExhausted"
              /\ attempts = Budget + 1

C3_Witness ==
    /\ pc = "done" /\ mode = "blocking"
    /\ outcome.kind = "RetryExhausted"
    /\ \E i \in 1..Len(transport_log) : transport_log[i].reply.raised
    /\ \E i \in 1..Len(transport_log) :
          /\ ~transport_log[i].reply.raised
          /\ transport_log[i].reply.status >= 400

\* The backend calls of this call that returned a reply.
Answered == {i \in 1..Len(transport_log) : ~transport_log[i].reply.raised}

\* C4 (as stated): every attempt of fetch invokes each request hook once in
\* registration order and each response hook once in reverse registration
\* order.
C4_HooksEveryAttempt ==
    (op = "fetch" /\ pc = "returned")
        => /\ req_log = HooksOf("process_request")
           /\ resp_log = Reverse(HooksOf("process_response"))

\* C4 (amended): every attempt of fetch invokes each request hook once in
\* registration order, before the backend call; an attempt whose backend
\* call returns a reply then invokes each response hook once in reverse
\* registration order; an attempt whose backend call raises invokes no
\* response hook.  This holds whether or not a hook raises.
C4_HooksPerAttempt ==
    (op = "fetch" /\ pc \in {"transport", "process_response", "returned"})
        => /\ req_log = HooksOf("process_request")
           /\ pc # "returned" => resp_log = <<>>
           /\ (pc = "returned" /\ result.kind = "response")
                => resp_log = Reverse(HooksOf("process_response"))
           /\ (pc = "returned" /\ result.kind # "response")
                => resp_log = <<>>
           /\ pc = "returned"
                => hook_calls =
                     attempts * Len(HooksOf("process_request"))
                       + Cardinality(Answered)
                           * Len(HooksOf("process_response"))

C4_Witness ==
    /\ op = "fetch" /\ pc = "returned"
    /\ attempts >= 2
    /\ hook_raised
    /\ Len(req_log) >= 2
    /\ Len(resp_log) >= 2

\* What a fetch gives its caller, as decided by the replies of the backend
\* alone.
OutcomeOfReplies ==
    IF wrapped
    THEN IF Failed(LastReply) THEN Raised("RetryExhausted")
         ELSE [kind |-> "response", status |-> LastReply.status, ok |-> 1]
    ELSE IF LastReply.raised THEN Raised("TransportError")
         ELSE [kind |-> "response", status |-> LastReply.status,
               ok |-> IF LastReply.status < 400 THEN 1 ELSE 0]

\* C5: a hook that raises is not fatal to a fetch: all hooks of the phase
\* still run, the backend call of the attempt still executes, and the call
\* ends as the replies of the backend alone decide.
C5_HookFailureNotFatal ==
    op = "fetch"
        => /\ pc = "returned" => Len(transport_log) = attempts
           /\ pc \in {"transport", "process_response", "returned"}
                => req_log = request_middleware
           /\ (pc = "returned" /\ result.kind = "response")
                => resp_log = response_middleware
           /\ pc = "done"
                => /\ Len(transport_log) = attempts
                   /\ outcome = OutcomeOfReplies
                   /\ wrapped =>
                        \A i \in 1..(Len(transport_log) - 1) :
                            Failed(transport_log[i].reply)
                   /\ (wrapped /\ AllFail) => attempts = Budget + 1

C5_Witness ==
    /\ op = "fetch" /\ pc = "done"
    /\ hook_raised
    /\ Len(req_log) >= 2
    /\ outcome.kind = "response"
    /\ attempts >= 2

C6_State ==
    /\ wrapped => attempts <= Budget + 1
    /\ Len(sleep_log) <= Budget
    /\ \A i \in 1..Len(sleep_log) : sleep_log[i] = Delay
    /\ (pc = "done" /\ outcome.kind = "RetryExhausted")
          => /\ attempts = Budget + 1
             /\ Len(sleep_log) = Budget

\* C6: the budget and the delay a call uses are its own retry_times and
\* retry_delay arguments when given, else the configured values of the
\* Downloader; no call changes the configured values.
C6_PerCallOverride ==
    /\ []C6_State
    /\ [][retry_times' = retry_times /\ retry_delay' = retry_delay]_vars

C6_Witness ==
    /\ pc = "done"
    /\ outcome.kind = "RetryExhausted"
    /\ "retry_times" \in DOMAIN kwargs0
    /\ "retry_delay" \in DOMAIN kwargs0
    /\ kwargs0["retry_times"] # retry_times
    /\ kwargs0["retry_delay"] # retry_delay
    /\ Len(sleep_log) >= 1

\* C7: the suspending variant of an operation ends as the blocking variant
\* did, for the same arguments and the same replies of the transport.
C7_SameOutcome ==
    (pc = "done" /\ expected.kind # "none") => outcome = expected

\* C8: download and async_download invoke no request hook and no response
\* hook, on any attempt, whatever middlewares are registered.
C8_DownloadBypassesMiddleware ==
    op = "download"
        => /\ hook_calls = 0
           /\ req_log = <<>>
           /\ resp_log = <<>>
           /\ ~request.exists
           /\ ~hook_raised

C8_Witness ==
    /\ op = "download" /\ pc = "done"
    /\ request_middleware # <<>>
    /\ response_middleware # <<>>
    /\ attempts >= 2

\* The backend calls of a download or fetch.
SessionCalls ==
    IF op \in {"download", "fetch"} THEN 1..Len(transport_log) ELSE {}

\* C9 (as stated): a download or fetch that supplies no session performs
\* its backend call on the default session, one that supplies a session
\* performs it on that session.
C9_DefaultSessionReused ==
    \A i \in SessionCalls :
        /\ params.session = None
              => /\ transport_log[i].session = default_session
                 /\ default_session # None
        /\ params.session # None
              => transport_log[i].session = params.session

C9_State ==
    /\ downloader_cls # "aiohttp" => default_session # None
    /\ ctor_session # None => default_session = ctor_session
    /\ \A i \in SessionCalls :
          IF downloader_cls = "httpx" /\ params.proxies
          THEN /\ transport_log[i].session \notin
                    {default_session, params.session}
               /\ transport_log[i].session =
                    IF params.session = None THEN "proxy_client" ELSE "copy"
          ELSE IF params.session # None
          THEN transport_log[i].session = params.session
          ELSE /\ transport_log[i].session = default_session
               /\ default_session # None

\* C9 (amended): a default session, once it exists, is never replaced (it
\* exists from construction on, except in AiohttpDownloader built without a
\* session, which creates it on the first call that needs it).  A download
\* or fetch that supplies no session, and in HttpxDownloader no proxies,
\* performs its backend call on the default session; one that supplies a
\* session, and in HttpxDownloader no proxies, performs it on that session;
\* in HttpxDownloader a call with proxies performs it on a new client, or
\* on a copy of the supplied session.
C9_DefaultSessionReusedUnlessProxies ==
    /\ []C9_State
    /\ [][default_session # None => default_session' = default_session]_vars

C9_Witness ==
    /\ pc = "done" /\ op = "fetch" /\ mode = "blocking"
    /\ downloader_cls = "aiohttp"
    /\ ctor_session = None
    /\ params.session = None
    /\ Len(transport_log) >= 2
    /\ \A i \in 1..Len(transport_log) :
          transport_log[i].session = default_session

\* C10: every close() invokes each close hook once, in reverse registration
\* order, and then releases the session of the Downloader.
C10_CloseHooksThenRelease ==
    \A i \in 1..Len(close_log) :
        close_log[i].events =
            [j \in 1..Len(HooksOf("close")) |->
                HookEvent(Reverse(HooksOf("close"))[j])]
              \o (IF default_session # None THEN <<ReleaseEvent>> ELSE <<>>)

\* C11: teardown is idempotent.  Once a close() has completed, a further
\* close(), explicit or from __del__, has no effect: it invokes no close
\* hook, does not release the session again and raises nothing.
C11_CloseIdempotent ==
    \A i \in 1..Len(close_log) :
        (\E j \in 1..(i - 1) : ~close_log[j].raised)
            => /\ close_log[i].events = <<>>
               /\ ~close_log[i].raised

\* C12: ok is a function of status alone, 1 exactly when status < 400.  It
\* holds of the Response the retry wrapper inspects (result), of the one the
\* caller gets (outcome), and of Response.__init__ at the statuses around
\* the limit.
C12_OkFromStatus ==
    /\ \A r \in {result, outcome, expected} :
          r.kind = "response" => ((r.ok = 1) <=> (r.status < 400))
    /\ \A status \in {-1, 0, 200, 399, 400, 401, 500} :
          (Response(status).ok = 1) <=> (status < 400)

\* A call whose first Response was not ok and whose caller got an ok one.
C12_Witness ==
    /\ pc = "done"
    /\ wrapped
    /\ Len(transport_log) >= 2
    /\ ~transport_log[1].reply.raised
    /\ transport_log[1].reply.status = 400
    /\ outcome.kind = "response"
    /\ outcome.ok = 1

\* C13: on a Response with a non-empty body every access to text returns
\* the same string, and over any sequence of text, json and selector
\* accesses get_encoding runs at most once: the encoding it resolved is
\* kept in the encoding attribute from the first access on.
C13_TextStable ==
    resp.content.data # <<>> =>
        /\ \A i, j \in 1..Len(text_log) : text_log[i].text = text_log[j].text
        /\ resp.get_encoding_calls <= 1
        /\ text_log # <<>> => resp.encoding # ""

\* Two accesses through different accessors to a body whose encoding had
\* to be resolved.
C13_Witness ==
    /\ resp.content.data # <<>>
    /\ Len(text_log) >= 2
    /\ text_log[1].by # text_log[2].by
    /\ resp.get_encoding_calls = 1
    /\ text_log[2].text.kind = "str"

\* The encoding the priority order gives a Response r whose encoding
\* attribute is empty: the charset of Content-Type when it names a codec,
\* else utf-8 for application/json and application/rdap, else what
\* detection reports, else utf-8.
ByPriority(r) ==
    IF r.charset \in Codecs THEN r.charset
    ELSE IF r.mimetype \in {[type |-> "application", subtype |-> "json"],
                            [type |-> "application", subtype |-> "rdap"]}
    THEN "utf-8"
    ELSE IF r.detected \in Codecs THEN r.detected
    ELSE "utf-8"

\* C14: an access to text on a non-empty body decodes it with the explicit
\* encoding when there is one, else with the first applicable of: the
\* Content-Type charset if it names a known codec, utf-8 for
\* application/json or application/rdap, the detected encoding, utf-8.
C14_EncodingPriority ==
    [][(resp.content.data # <<>> /\ text_log' # text_log) =>
        LET used == IF resp.encoding # "" THEN resp.encoding
                    ELSE ByPriority(resp)
        IN  /\ resp'.encoding = used
            /\ text_log'[Len(text_log')].text = decode(resp.content.data, used)
      ]_vars

\* The charset of Content-Type names no codec, the media type is not JSON,
\* and the body was decoded with the detected encoding.
C14_Witness ==
    /\ resp.content.data = <<195, 169>>
    /\ resp.charset = "x-unknown"
    /\ resp.mimetype = [type |-> "text", subtype |-> "json"]
    /\ resp.detected = "latin-1"
    /\ resp.get_encoding_calls = 1
    /\ text_log # <<>>
    /\ text_log[1].text = Value("str", <<195, 169>>)

\* C15: while the retry wrapper sleeps, the sleeping thread is the calling
\* thread in blocking mode; in a call made from suspending mode it is not
\* the thread of the event loop, which stays free for other coroutines.
C15_DelayOffLoop ==
    pc = "sleeping" =>
        /\ mode = "blocking" => thread = "caller"
        /\ mode = "suspending" =>
              /\ thread = "worker"
              /\ LoopFree
              /\ ("sleeping" \notin other_at => ENABLED OtherCoroutine)

\* Another coroutine has run during the retry delay of a suspending call.
C15_Witness ==
    /\ pc = "sleeping"
    /\ mode = "suspending"
    /\ sleep_log # <<>>
    /\ "sleeping" \in other_at

\* The retry budget the wrapper would read now.
Remaining ==
    IF "retry_times" \in DOMAIN kwargs THEN kwargs["retry_times"]
    ELSE retry_times

C16_State ==
    (wrapped /\ pc # "idle") =>
        /\ Remaining >= 0
        /\ Remaining = Budget - Len(sleep_log)
        /\ attempts <= Len(sleep_log) + 1
        /\ attempts + Remaining <= Budget + 1
        /\ pc = "done" => outcome.kind \in {"response", "RetryExhausted"}
        /\ pc # "done" => ENABLED Steps

C16_Step ==
    (wrapped /\ pc = "returned") =>
        IF result.kind = "response" /\ result.ok = 1
        THEN pc' = "done" /\ outcome' = result
        ELSE IF Remaining = 0
        THEN pc' = "done" /\ outcome'.kind = "RetryExhausted"
        ELSE /\ pc' = "sleeping"
             /\ Remaining' = Remaining - 1
             /\ outcome'.kind = "none"

\* C16: within a retry-wrapped call the remaining budget is never negative
\* and drops by exactly one at each non-ok outcome that is followed by
\* another attempt; the number of attempts is bounded by the budget plus
\* one and the call can always go on until it ends, with the ok Response
\* or exhausted; it ends exhausted exactly at a non-ok outcome met with a
\* remaining budget of zero.
C16_BudgetDecreasesToExhaustion == []C16_State /\ [][C16_Step]_vars

\* A call with a budget of at least one that used it up.
C16_Witness ==
    /\ pc = "done"
    /\ wrapped
    /\ Budget >= 1
    /\ Remaining = 0
    /\ attempts = Budget + 1
    /\ outcome.kind = "RetryExhausted"

\* C17: on every attempt of get, post, download and fetch the backend call
\* gets the keyword arguments of the first attempt, and the bookkeeping
\* keys retry_times and retry_delay are never among them.
C17_TransportParametersStable ==
    \A i \in 1..Len(transport_log) :
        /\ transport_log[i].kwargs = transport_log[1].kwargs
        /\ transport_log[i].kwargs \cap BookKeys = {}

\* The proxy parameter of the call in flight as the caller gave it, in the
\* form fetch puts it into the Request (httpx takes it out beforehand).
CallerProxies ==
    IF downloader_cls # "httpx" /\ params.proxies THEN "caller" ELSE None

C19_TransportAfterRequestHooks ==
    [][(pc = "transport" /\ request.exists /\ transport_log' # transport_log)
        => /\ req_log = request_middleware
           /\ resp_log = <<>>
           /\ transport_log'[Len(transport_log')].proxies = request.proxies
           /\ transport_log'[Len(transport_log')].session = request.func
      ]_vars

\* A fetch with two request hooks, one of which assigned the proxy
\* attribute, whose backend call received that proxy.
C19_Witness ==
    /\ op = "fetch"
    /\ pc = "process_response"
    /\ Len(req_log) = 2
    /\ handed.proxies = None
    /\ request.proxies = "hook"
    /\ transport_log[Len(transport_log)].proxies = "hook"

C20_State ==
    (wrapped /\ pc = "done" /\ outcome.kind = "RetryExhausted")
        => attempts = Budget + 1

\* C20: no step of a get, post, download or fetch call, in either mode,
\* changes retry_times, retry_delay or one of the three hook deques of the
\* Downloader; so a call that finds every attempt failing makes its full
\* budget of attempts whatever the calls before it have used up.
C20_ConfigurationUntouched ==
    /\ []C20_State
    /\ [][/\ retry_times' = retry_times
          /\ retry_delay' = retry_delay
          /\ request_middleware' = request_middleware
          /\ response_middleware' = response_middleware
          /\ close_method' = close_method
          /\ middlewares' = middlewares]_vars

\* A call without retry arguments that made all its attempts although the
\* call before it, on the same Downloader, had used up the budget.
C20_Witness ==
    /\ pc = "done"
    /\ wrapped
    /\ mode = "suspending"
    /\ kwargs0 = <<>>
    /\ retry_times >= 1
    /\ expected.kind = "RetryExhausted"
    /\ outcome.kind = "RetryExhausted"
    /\ attempts = retry_times + 1

\* C23: a close hook that raises does not abort close(): every close hook
\* of the Downloader is still invoked, and an AiohttpDownloader that has a
\* default session still releases it.
C23_CloseSurvivesHookFailure ==
    \A i \in 1..Len(close_log) :
        close_log[i].failed # {} =>
            /\ \A h \in Range(close_method) :
                  \E j \in 1..Len(close_log[i].events) :
                      close_log[i].events[j] = HookEvent(h)
            /\ (downloader_cls = "aiohttp" /\ default_session # None) =>
                  \E j \in 1..Len(close_log[i].events) :
                      close_log[i].events[j] = ReleaseEvent

\* A concurrent call is between its suspension points: it has started, has
\* not ended, and is neither awaiting the backend nor in its retry delay.
Busy(t) == tasks[t].pc \notin {"start", "transport", "sleeping", "done"}

\* C21: concurrent suspending calls interleave only at the backend call
\* and at the retry delay: while one call is between those points, building
\* its Request, running its hooks or building its Response, no other call
\* takes a step.
C21_InterleaveOnlyAtSuspension ==
    [][\A t, u \in TaskIds :
          (t # u /\ Busy(t)) => tasks'[u] = tasks[u]]_vars

\* C22: on an AiohttpDownloader constructed without a session, however the
\* concurrent async_download and async_fetch calls interleave, get_session
\* creates at most one default session and connector, and every call
\* without a session of its own performs its backend call on that session.
C22_OneDefaultSession ==
    (downloader_cls = "aiohttp" /\ ctor_session = None) =>
        /\ created <= 1
        /\ (created = 1) <=> (default_session # None)
        /\ (created = 1) <=> tc
        /\ \A t \in TaskIds :
              (tasks[t].own = None /\ tasks[t].session # None)
                  => tasks[t].session = default_session

\* Two calls without a session of their own, both suspended after choosing
\* their session: the second ran get_session while the first was suspended.
C22_Witness ==
    /\ downloader_cls = "aiohttp"
    /\ ctor_session = None
    /\ created = 1
    /\ \A t \in {1, 2} :
          /\ tasks[t].own = None
          /\ tasks[t].pc \in SuspendedAt
          /\ tasks[t].session = default_session
====
